---- MODULE Spec2Model ----
(***************************************************************************)
(* Model of the LiveConversation component                                 *)
(* (src/components/LiveConversation.tsx): the session lifecycle            *)
(* (startSession / stopSession / unmount cleanup), the callbacks handed to *)
(* ai.live.connect (onopen, onmessage, onerror, onclose), the capture      *)
(* callback onaudioprocess, the transcript aggregation and the scheduling  *)
(* of the inbound audio chunks.                                            *)
(*                                                                         *)
(* Every startSession invocation is numbered 1..MaxStarts.  Invocation i   *)
(* acquires at most one MediaStream (stream i) and creates at most one     *)
(* session (session i); the onopen callback of session i creates at most   *)
(* one source node and one script processor node (nodes i).  A reference   *)
(* (useRef) holds Null or the number of the object it points to.           *)
(*                                                                         *)
(* The Chatbot component (src/components/Chatbot.tsx) is modelled with its *)
(* state, initializeChat, handleSendMessage and the settling of the        *)
(* requests it awaits.  Its chats and requests are numbered.               *)
(*                                                                         *)
(* The VideoGenerator component (src/unnamed/part_002) is modelled with    *)
(* its state, the key check of the mount effect, handleSelectKey and       *)
(* handleGenerate, one step for every await of these handlers.             *)
(***************************************************************************)
EXTENDS Integers, Sequences, FiniteSets, TLC

\* ---------------------------------------------------------------- bounds
MaxStarts == 2      \* startSession invocations in one behaviour
MaxFrames == 1      \* onaudioprocess callbacks in one behaviour
MaxMsgs   == 2      \* server messages delivered in one behaviour
MaxClock  == 1      \* readings of an output AudioContext's currentTime
MaxDur    == 1      \* duration of a decoded audio buffer, in clock units
MaxSample == 2      \* captured samples range over [-MaxSample, MaxSample]
Window    == 10     \* grid steps on each side of a whole sample value
SubSteps  == 2      \* grid steps of the samples per unit of the encoding
MaxChats  == 2      \* chats created by initializeChat in one behaviour
MaxReqs   == 2      \* sendMessage requests in one behaviour
MaxSubmits == 3     \* submits of the chat form in one behaviour
MaxRuns   == 2      \* handleGenerate invocations in one behaviour
MaxPolls  == 2      \* polls of the operation in one handleGenerate run
MaxDialogs == 2     \* key selection dialogs pending at a time

Null == 0
Ids  == 1..MaxStarts

Frags == {"a", "b"}             \* transcript fragments a message can carry
NoText == "none"                \* the message has no such transcription

EmptyTurn == [user |-> <<>>, model |-> <<>>]

\* user-visible error messages (lines 131, 152, 154)
MsgSession == "Session error"
MsgApiKey  == "API Key error or model access issue"
MsgMic     == "Could not access microphone or start session"
NoError    == "null"

\* LiveServerMessage: the parts of serverContent the handler reads
Messages ==
  [inT : Frags \cup {NoText}, outT : Frags \cup {NoText}, tc : BOOLEAN]

\* the inline audio of a message (line 115): absent, or a payload that
\* decodes to a buffer of the given duration
NoAudio   == 0
Durations == 1..MaxDur
Audio     == Durations \cup {NoAudio}

\* A captured sample (a Float32 of inputData, line 83) is the number
\* n / SampleDen; the model holds n.  The grid has SubSteps points per
\* 1/32768, so that the product with 32768 has a fraction.  The samples are
\* the whole values -MaxSample..MaxSample and the grid points next to them.
SampleDen == SubSteps * 32768
Samples ==
  {c * SampleDen + d : c \in -MaxSample..MaxSample, d \in -Window..Window}

\* a block of silence
SilentBlock == << 0 >>

\* a message without transcription and without turn-complete
NoTextMsg == [inT |-> NoText, outT |-> NoText, tc |-> FALSE]

VARIABLES
  mounted,               \* the component is mounted
  isSessionActive,       \* useState, line 19
  transcriptions,        \* useState, line 20: history of turns
  currentTranscription,  \* useState, line 21: the turn in progress
  error,                 \* useState, line 22
  sessionPromiseRef,     \* useRef, line 24
  mediaStreamRef,        \* useRef, line 27
  scriptProcessorRef,    \* useRef, line 28
  mediaStreamSourceRef,  \* useRef, line 29
  outputAudioContextRef, \* useRef, line 26: the context made by onopen of i
  nextStartTimeRef,      \* useRef, line 31: the PlaybackCursor
  ctxTime,               \* currentTime of the output context of session i
  pendingDecodes,        \* onmessage invocations suspended at line 119
  scheduled,             \* the sources started at line 124, in order
  deliveredSince,        \* fragments delivered since the last startSession
  audioSourcesRef,       \* useRef, line 32: the live set, sources by number
  endedSources,          \* the sources whose ended event has fired
  inputData,             \* the samples of the last capture callback, line 83
  int16,                 \* the Int16Array the callback filled, lines 86-89
  nStarts,               \* startSession invocations so far
  inv,                   \* position of each startSession invocation
  captured,              \* currentTranscription in the closure of invocation i
  streamLive,            \* stream i has an unstopped track
  sess,                  \* transport state of session i
  promise,               \* state of the promise returned by connect
  reactions,             \* then-callbacks registered on a pending promise
  calls,                 \* method calls made on session i, in order
  procConnected,         \* script processor i is connected (fires callbacks)
  srcConnected,          \* media stream source node i is connected
  nFrames,               \* onaudioprocess callbacks so far
  nMsgs,                 \* server messages so far
  stoppedEarly,          \* invocations that saw a stop before they completed
  \* ---- Chatbot (src/components/Chatbot.tsx)
  chatMounted,           \* the mount effect (line 36) has run
  chat,                  \* useState, line 10: Null or the number of the chat
  messages,              \* useState, line 11
  input,                 \* useState, line 12
  isLoading,             \* useState, line 13
  chatError,             \* useState, line 14
  requests,              \* sendMessage calls: their state and their chat
  sentBy,                \* for each message, the request it belongs to
  nChats,                \* chats created so far
  nSubmits,              \* submits of the form so far
  \* ---- VideoGenerator (src/unnamed/part_002)
  videoMounted,          \* the mount effect (line 28) has run
  aistudio,              \* window.aistudio exists (lines 30, 52)
  keyCheck,              \* the hasSelectedApiKey call of line 31
  dialogs,               \* openSelectKey calls awaiting their result, line 54
  prompt,                \* useState, line 19
  initialImage,          \* useState, line 21: an image is chosen
  generatedVideo,        \* useState, line 22: Null or the run that made it
  videoIsLoading,        \* useState, line 23
  loadingMessage,        \* useState, line 24: index into loadingMessages
  videoError,            \* useState, line 25
  isKeySelected,         \* useState, line 26
  gen,                   \* the handleGenerate run: its position and polls
  nRuns                  \* handleGenerate runs begun so far

vars == << mounted, isSessionActive, transcriptions, currentTranscription,
           error, sessionPromiseRef, mediaStreamRef, scriptProcessorRef,
           mediaStreamSourceRef, nStarts, inv, captured, streamLive, sess,
           promise, reactions, calls, procConnected, srcConnected, nFrames,
           nMsgs, stoppedEarly, outputAudioContextRef, nextStartTimeRef,
           ctxTime, pendingDecodes, scheduled, deliveredSince,
           audioSourcesRef, endedSources, inputData, int16,
           chatMounted, chat, messages, input, isLoading, chatError,
           requests, sentBy, nChats, nSubmits,
           videoMounted, aistudio, keyCheck, dialogs, prompt, initialImage,
           generatedVideo, videoIsLoading, loadingMessage, videoError,
           isKeySelected, gen, nRuns >>

videoVars == << videoMounted, aistudio, keyCheck, dialogs, prompt,
                initialImage, generatedVideo, videoIsLoading, loadingMessage,
                videoError, isKeySelected, gen, nRuns >>

liveVars == << mounted, isSessionActive, transcriptions, currentTranscription,
               error, sessionPromiseRef, mediaStreamRef, scriptProcessorRef,
               mediaStreamSourceRef, nStarts, inv, captured, streamLive, sess,
               promise, reactions, calls, procConnected, srcConnected,
               nFrames, nMsgs, stoppedEarly, outputAudioContextRef,
               nextStartTimeRef, ctxTime, pendingDecodes, scheduled,
               deliveredSince, audioSourcesRef, endedSources, inputData,
               int16 >>

chatVars == << chatMounted, chat, messages, input, isLoading, chatError,
               requests, sentBy, nChats, nSubmits >>

\* ------------------------------------------------- the component's state
\* The state the handlers read and write, as one record, so that a handler
\* is a function from state to state and handlers compose in sequence.
Heap ==
  [ isSessionActive      |-> isSessionActive,
    transcriptions       |-> transcriptions,
    currentTranscription |-> currentTranscription,
    error                |-> error,
    sessionPromiseRef    |-> sessionPromiseRef,
    mediaStreamRef       |-> mediaStreamRef,
    scriptProcessorRef   |-> scriptProcessorRef,
    mediaStreamSourceRef |-> mediaStreamSourceRef,
    streamLive           |-> streamLive,
    sess                 |-> sess,
    promise              |-> promise,
    reactions            |-> reactions,
    calls                |-> calls,
    procConnected        |-> procConnected,
    srcConnected         |-> srcConnected,
    outputAudioContextRef |-> outputAudioContextRef,
    nextStartTimeRef     |-> nextStartTimeRef,
    pendingDecodes       |-> pendingDecodes,
    scheduled            |-> scheduled,
    audioSourcesRef      |-> audioSourcesRef ]

Commit(h) ==
  /\ isSessionActive'      = h.isSessionActive
  /\ transcriptions'       = h.transcriptions
  /\ currentTranscription' = h.currentTranscription
  /\ error'                = h.error
  /\ sessionPromiseRef'    = h.sessionPromiseRef
  /\ mediaStreamRef'       = h.mediaStreamRef
  /\ scriptProcessorRef'   = h.scriptProcessorRef
  /\ mediaStreamSourceRef' = h.mediaStreamSourceRef
  /\ streamLive'           = h.streamLive
  /\ sess'                 = h.sess
  /\ promise'              = h.promise
  /\ reactions'            = h.reactions
  /\ calls'                = h.calls
  /\ procConnected'        = h.procConnected
  /\ srcConnected'         = h.srcConnected
  /\ outputAudioContextRef' = h.outputAudioContextRef
  /\ nextStartTimeRef'     = h.nextStartTimeRef
  /\ pendingDecodes'       = h.pendingDecodes
  /\ scheduled'            = h.scheduled
  /\ audioSourcesRef'      = h.audioSourcesRef

\* ------------------------------------------------------ the session object
\* A method call on the session object s (interface LiveSession, lines
\* 10-13).  The call is logged with the transport state it found.  close()
\* on an open session starts the closing handshake.
CallSession(h, s, op) ==
  [h EXCEPT
     !.calls = [@ EXCEPT ![s] = Append(@, [op |-> op, st |-> h.sess[s]])],
     !.sess  = [@ EXCEPT ![s] =
                  IF op = "close" /\ @ = "open" THEN "closing" ELSE @]]

\* sessionPromise.then(session => session.op()): on a fulfilled promise the
\* callback runs as a microtask, before any other handler; on a pending one
\* it is queued behind the callbacks registered earlier; on a rejected one
\* it never runs.
ThenSession(h, s, op) ==
  CASE h.promise[s] = "resolved" -> CallSession(h, s, op)
    [] h.promise[s] = "pending"  ->
         [h EXCEPT !.reactions = [@ EXCEPT ![s] = Append(@, op)]]
    [] OTHER -> h

\* Fulfilment of the promise: the queued callbacks run in registration order.
RECURSIVE RunReactions(_, _)
RunReactions(h, s) ==
  IF h.reactions[s] = <<>> THEN h
  ELSE RunReactions(
         CallSession([h EXCEPT !.reactions = [@ EXCEPT ![s] = Tail(@)]],
                     s, Head(h.reactions[s])),
         s)

\* -------------------------------------------------------------- stopSession
\* stopSession with the session reference kept after the close request
StopStepSession_KeepRef(h) ==
  IF h.sessionPromiseRef # Null
  THEN ThenSession(h, h.sessionPromiseRef, "close")
  ELSE h

\* lines 35-38
StopStepSession(h) ==
  IF h.sessionPromiseRef # Null
  THEN [ThenSession(h, h.sessionPromiseRef, "close")
          EXCEPT !.sessionPromiseRef = Null]
  ELSE h

\* stopSession with the processor disconnected on every call, its reference
\* kept
StopStepProcessor_KeepRef(h) ==
  IF h.scriptProcessorRef # Null
  THEN [h EXCEPT !.procConnected = [@ EXCEPT ![h.scriptProcessorRef] = FALSE]]
  ELSE h

\* lines 39-42
StopStepProcessor(h) ==
  IF h.scriptProcessorRef # Null
  THEN [h EXCEPT !.procConnected = [@ EXCEPT ![h.scriptProcessorRef] = FALSE],
                 !.scriptProcessorRef = Null]
  ELSE h

\* lines 43-46
StopStepSource(h) ==
  IF h.mediaStreamSourceRef # Null
  THEN [h EXCEPT !.srcConnected = [@ EXCEPT ![h.mediaStreamSourceRef] = FALSE],
                 !.mediaStreamSourceRef = Null]
  ELSE h

\* lines 47-50
StopStepStream(h) ==
  IF h.mediaStreamRef # Null
  THEN [h EXCEPT !.streamLive = [@ EXCEPT ![h.mediaStreamRef] = FALSE],
                 !.mediaStreamRef = Null]
  ELSE h

\* lines 34-53
stopSession(h) ==
  [StopStepStream(StopStepSource(StopStepProcessor(StopStepSession(h))))
     EXCEPT !.isSessionActive = FALSE]

\* lines 35-51: the states stopSession goes through before it clears the
\* flag: at entry and after each of its four teardown steps
stopSessionStates(h) ==
  LET h1 == StopStepSession(h)
      h2 == StopStepProcessor(h1)
      h3 == StopStepSource(h2)
      h4 == StopStepStream(h3)
  IN  << h, h1, h2, h3, h4 >>

\* ------------------------------------------------ callbacks of the session
\* lines 70-100: the onopen callback of session s
onopen(h, s) ==
  IF h.mediaStreamRef = Null THEN h
  ELSE [h EXCEPT !.outputAudioContextRef = s,
                 !.mediaStreamSourceRef = s,
                 !.scriptProcessorRef   = s,
                 !.srcConnected  = [@ EXCEPT ![s] = TRUE],
                 !.procConnected = [@ EXCEPT ![s] = TRUE]]

\* the integer part of a / b, b positive: the fraction is dropped
Trunc(a, b) == IF a >= 0 THEN a \div b ELSE -((-a) \div b)

\* a store that keeps the nearest value of the signed 16-bit range
ToInt16_Clamp(x) ==
  IF x > 32767 THEN 32767 ELSE IF x < -32768 THEN -32768 ELSE x

\* line 88: the store into an Int16Array element keeps the low 16 bits of
\* the integer, read as a signed number
ToInt16(x) ==
  LET m == x % 65536
  IN  IF m >= 32768 THEN m - 65536 ELSE m

\* line 88: int16[i] = inputData[i] * 32768, for the sample n / SampleDen:
\* the product is the number n / SubSteps, Scaled drops its fraction and the
\* store into the Int16Array converts the integer
Scaled(n) == Trunc(n, SubSteps)
EncodeSample(n) == ToInt16(Scaled(n))

\* lines 85-89: the loop over the block
EncodeBlock(x) == [k \in 1..Len(x) |-> EncodeSample(x[k])]

\* lines 90-96: the capture callback after the encoding loop: the blob is
\* sent through the session promise in the ref
onaudioprocess(h) ==
  IF h.sessionPromiseRef # Null
  THEN ThenSession(h, h.sessionPromiseRef, "send")
  ELSE h

\* a transcript part that puts a new fragment in front of the turn
onmessage_Prepend(h, m, cap) ==
  LET h1 == IF m.inT # NoText
            THEN [h EXCEPT !.currentTranscription.user = <<m.inT>> \o @]
            ELSE h
      h2 == IF m.outT # NoText
            THEN [h1 EXCEPT !.currentTranscription.model = <<m.outT>> \o @]
            ELSE h1
  IN  IF m.tc
      THEN [h2 EXCEPT !.transcriptions = Append(@, cap),
                      !.currentTranscription = EmptyTurn]
      ELSE h2

\* lines 101-113: the transcript part of onmessage, in the closure of the
\* startSession invocation whose render saw currentTranscription = cap
onmessage(h, m, cap) ==
  LET h1 == IF m.inT # NoText
            THEN [h EXCEPT !.currentTranscription.user = @ \o <<m.inT>>]
            ELSE h
      h2 == IF m.outT # NoText
            THEN [h1 EXCEPT !.currentTranscription.model = @ \o <<m.outT>>]
            ELSE h1
  IN  IF m.tc
      THEN [h2 EXCEPT !.transcriptions = Append(@, cap),
                      !.currentTranscription = EmptyTurn]
      ELSE h2

Max(a, b) == IF a >= b THEN a ELSE b

\* an audio part that does not test the payload
onmessageAudio_AnyPayload(h, a, now, n) ==
  IF h.outputAudioContextRef # Null
  THEN [h EXCEPT !.nextStartTimeRef = Max(@, now),
                 !.pendingDecodes =
                    Append(@, [ctx |-> h.outputAudioContextRef, dur |-> a,
                               arr |-> now, seq |-> n])]
  ELSE h

\* an audio part that does not raise the cursor to the clock
onmessageAudio_NoMax(h, a, now, n) ==
  IF a # NoAudio /\ h.outputAudioContextRef # Null
  THEN [h EXCEPT !.pendingDecodes =
                    Append(@, [ctx |-> h.outputAudioContextRef, dur |-> a,
                               arr |-> now, seq |-> n])]
  ELSE h

\* lines 115-119: the audio part of onmessage up to the await.  a is the
\* inline audio, now the currentTime of the context in outputAudioContextRef,
\* n the number of the message.  The invocation is suspended with its local
\* outputCtx.
onmessageAudio(h, a, now, n) ==
  IF a # NoAudio /\ h.outputAudioContextRef # Null
  THEN [h EXCEPT !.nextStartTimeRef = Max(@, now),
                 !.pendingDecodes =
                    Append(@, [ctx |-> h.outputAudioContextRef, dur |-> a,
                               arr |-> now, seq |-> n])]
  ELSE h

\* await decodeAudioData(...), line 119 (utils/helpers is not among the
\* sources): the decodes complete in the order they were started, each
\* after a latency that varies.  The index in the queue of pending decodes
\* of the one that completes next.
decodeAudioData(q) == 1

\* a continuation that starts the source and leaves the cursor where it was
onmessageResume_NoAdvance(h, p) ==
  [h EXCEPT !.scheduled =
               Append(@, [start |-> h.nextStartTimeRef, dur |-> p.dur,
                          arr |-> p.arr, seq |-> p.seq, ctx |-> p.ctx]),
            !.audioSourcesRef = @ \cup {p.seq}]

\* lines 120-126: the continuation of onmessage after the await, for the
\* suspended invocation p
onmessageResume(h, p) ==
  [h EXCEPT !.scheduled =
               Append(@, [start |-> h.nextStartTimeRef, dur |-> p.dur,
                          arr |-> p.arr, seq |-> p.seq, ctx |-> p.ctx]),
            !.nextStartTimeRef = @ + p.dur,
            !.audioSourcesRef = @ \cup {p.seq}]

\* an ended listener that leaves the source in the set
onended_Keep(h, n) == h

\* line 123: the listener of the ended event of the source numbered n
onended(h, n) ==
  [h EXCEPT !.audioSourcesRef = @ \ {n}]

\* onerror that reports the error and tears nothing down
onerror_MessageOnly(h) ==
  [h EXCEPT !.error = MsgSession]

\* lines 129-133
onerror(h) ==
  stopSession([h EXCEPT !.error = MsgSession])

\* lines 134-137
onclose(h) ==
  [h EXCEPT !.isSessionActive = FALSE]

\* a catch block that reports the error and leaves the active flag set
startSessionCatch_KeepActive(h, notFound) ==
  [h EXCEPT !.error = IF notFound THEN MsgApiKey ELSE MsgMic]

\* lines 149-157: the catch block of startSession
startSessionCatch(h, notFound) ==
  [h EXCEPT !.error = IF notFound THEN MsgApiKey ELSE MsgMic,
            !.isSessionActive = FALSE]

\* lines 56-59
startSessionBegin(h) ==
  [h EXCEPT !.error = NoError,
            !.isSessionActive = TRUE,
            !.transcriptions = <<>>,
            !.currentTranscription = EmptyTurn]

\* lines 63-147: the continuation of startSession i after getUserMedia
startSessionConnect(h, i) ==
  [h EXCEPT !.mediaStreamRef = i,
            !.streamLive = [@ EXCEPT ![i] = TRUE],
            !.sess    = [@ EXCEPT ![i] = "connecting"],
            !.promise = [@ EXCEPT ![i] = "pending"],
            !.sessionPromiseRef = i]

\* lines 63-65 then 149-157: the stream is stored, then the construction of
\* the client or the connect call throws
startSessionThrow(h, i, notFound) ==
  startSessionCatch(
    [h EXCEPT !.mediaStreamRef = i,
              !.streamLive = [@ EXCEPT ![i] = TRUE]],
    notFound)

\* ------------------------------------------------------------ the Chatbot
\* the texts the user can have in the input field: empty, blank, a question
Inputs == {"", " ", "hi"}

\* String.prototype.trim on these texts (line 52)
Trim(t) == IF t = " " THEN "" ELSE t

\* the texts a reply can carry (result.text, line 62)
Replies == {"reply"}

Greeting == [role |-> "model", text |-> "Hello! How can I help you today?"]
Apology  == [role |-> "model",
             text |-> "Sorry, I encountered an error. Please try again."]

MsgChatInit == "Failed to initialize the AI"
MsgChatKey  == "API Key error. Please check your API key setup."
MsgChatFail == "An error occurred while getting a response."

ChatMessages ==
  [role : {"user"}, text : Inputs] \cup [role : {"model"}, text : Replies]
     \cup {Greeting, Apology}

\* the state the handlers of the Chatbot read and write
ChatHeap ==
  [ chat      |-> chat,
    messages  |-> messages,
    input     |-> input,
    isLoading |-> isLoading,
    chatError |-> chatError,
    requests  |-> requests,
    sentBy    |-> sentBy,
    nChats    |-> nChats ]

ChatCommit(h) ==
  /\ chat' = h.chat
  /\ messages' = h.messages
  /\ input' = h.input
  /\ isLoading' = h.isLoading
  /\ chatError' = h.chatError
  /\ requests' = h.requests
  /\ sentBy' = h.sentBy
  /\ nChats' = h.nChats

\* lines 17-34: ok is false when the construction of the client or of the
\* chat throws
initializeChat(h, ok) ==
  IF ok
  THEN [h EXCEPT !.nChats = @ + 1,
                 !.chat = h.nChats + 1,
                 !.messages = << Greeting >>,
                 !.sentBy = << 0 >>,
                 !.chatError = NoError,
                 !.input = ""]
  ELSE [h EXCEPT !.chatError = MsgChatInit]

\* lines 46-48
handleNewChat(h, ok) == initializeChat(h, ok)

\* lines 54-61: the user message is appended and the request is sent on the
\* chat of the render
sendAccepted(h) ==
  [h EXCEPT !.messages = Append(@, [role |-> "user", text |-> h.input]),
            !.sentBy = Append(@, Len(h.requests) + 1),
            !.input = "",
            !.isLoading = TRUE,
            !.chatError = NoError,
            !.requests = Append(@, [st |-> "pending", chat |-> h.chat])]

handleSendMessage_NoGuard(h) == sendAccepted(h)

\* lines 50-61, up to the await
handleSendMessage(h) ==
  IF Trim(h.input) = "" \/ h.isLoading \/ h.chat = Null
  THEN h
  ELSE sendAccepted(h)

\* lines 62-63 and 73: request r resolved with a reply of text t
sendResolved(h, r, t) ==
  [h EXCEPT !.messages = Append(@, [role |-> "model", text |-> t]),
            !.sentBy = Append(@, r),
            !.isLoading = FALSE,
            !.requests = [@ EXCEPT ![r].st = "done"]]

\* lines 64-73: request r rejected
sendRejected(h, r, notFound) ==
  [h EXCEPT !.chatError = IF notFound THEN MsgChatKey ELSE MsgChatFail,
            !.messages = Append(@, Apology),
            !.sentBy = Append(@, r),
            !.isLoading = FALSE,
            !.requests = [@ EXCEPT ![r].st = "done"]]

\* ---------------------------------------------------- the VideoGenerator
\* the texts the user can have in the prompt field: empty, blank, a prompt
Prompts == {"", " ", "cat"}

\* the number of loadingMessages (lines 9-16)
NumLoadingMessages == 6

MsgPrompt    == "Please enter a prompt."
MsgVideoKey  == "API Key error. Please re-select your API key."
MsgVideoFail == "Failed to generate video. Please try again."
MsgDialog    == "Could not open the API key selection dialog."

\* the positions of a handleGenerate run: not begun, awaiting fileToBase64
\* (line 96), generateVideos (101), the timer (104), getVideosOperation
\* (105), fetch (111), blob (113), and returned
Phases == {"idle", "image", "create", "sleep", "poll", "fetch", "blob",
           "finished"}

\* the state the handlers of the VideoGenerator read and write
VideoHeap ==
  [ prompt         |-> prompt,
    initialImage   |-> initialImage,
    generatedVideo |-> generatedVideo,
    videoIsLoading |-> videoIsLoading,
    loadingMessage |-> loadingMessage,
    videoError     |-> videoError,
    isKeySelected  |-> isKeySelected,
    gen            |-> gen,
    nRuns          |-> nRuns ]

VideoCommit(h) ==
  /\ prompt' = h.prompt
  /\ initialImage' = h.initialImage
  /\ generatedVideo' = h.generatedVideo
  /\ videoIsLoading' = h.videoIsLoading
  /\ loadingMessage' = h.loadingMessage
  /\ videoError' = h.videoError
  /\ isKeySelected' = h.isKeySelected
  /\ gen' = h.gen
  /\ nRuns' = h.nRuns

\* lines 118-128: the catch and the finally; notFound is true when the
\* message of the error contains "Requested entity was not found"
generateFailed(h, notFound) ==
  [h EXCEPT !.videoError = IF notFound THEN MsgVideoKey ELSE MsgVideoFail,
            !.isKeySelected = IF notFound THEN FALSE ELSE @,
            !.videoIsLoading = FALSE,
            !.gen = [@ EXCEPT !.phase = "finished"]]

\* lines 71-101, up to the first await; ok is false when the construction
\* of the client (line 82) throws
handleGenerate(h, ok) ==
  IF Trim(h.prompt) = ""
  THEN [h EXCEPT !.videoError = MsgPrompt]
  ELSE LET h1 == [h EXCEPT
                    !.videoIsLoading = TRUE,
                    !.loadingMessage = 0,
                    !.videoError = NoError,
                    !.generatedVideo = Null,
                    !.nRuns = @ + 1,
                    !.gen = [phase |-> IF h.initialImage THEN "image"
                                                         ELSE "create",
                             doneSeen |-> FALSE,
                             polls |-> 0]]
       IN  IF ok THEN h1 ELSE generateFailed(h1, FALSE)

\* lines 96-101: fileToBase64 resolved, generateVideos is called
imageEncoded(h) == [h EXCEPT !.gen = [@ EXCEPT !.phase = "create"]]

\* lines 101-117: generateVideos or getVideosOperation resolved with an
\* operation; done is its flag, uri whether its response carries a video uri
operationArrived(h, done, uri) ==
  LET h1 == [h EXCEPT !.gen = [@ EXCEPT !.doneSeen = done]]
  IN  IF ~done THEN [h1 EXCEPT !.gen = [@ EXCEPT !.phase = "sleep"]]
      ELSE IF uri THEN [h1 EXCEPT !.gen = [@ EXCEPT !.phase = "fetch"]]
      ELSE generateFailed(h1, FALSE)

\* lines 104-105: the timer fired, the operation is polled
timerFired(h) ==
  [h EXCEPT !.gen = [@ EXCEPT !.phase = "poll", !.polls = @ + 1]]

\* lines 111-113: fetch resolved with a response; ok is response.ok
fetchResolved(h, ok) ==
  IF ok THEN [h EXCEPT !.gen = [@ EXCEPT !.phase = "blob"]]
        ELSE generateFailed(h, FALSE)

\* lines 113-114 and 127: blob resolved, the object URL is stored
blobResolved(h) ==
  [h EXCEPT !.generatedVideo = h.nRuns,
            !.videoIsLoading = FALSE,
            !.gen = [@ EXCEPT !.phase = "finished"]]

\* ------------------------------------------------------------------- Init
Init ==
  /\ mounted = TRUE
  /\ isSessionActive = FALSE
  /\ transcriptions = <<>>
  /\ currentTranscription = EmptyTurn
  /\ error = NoError
  /\ sessionPromiseRef = Null
  /\ mediaStreamRef = Null
  /\ scriptProcessorRef = Null
  /\ mediaStreamSourceRef = Null
  /\ nStarts = 0
  /\ inv = [i \in Ids |-> "idle"]
  /\ captured = [i \in Ids |-> EmptyTurn]
  /\ streamLive = [i \in Ids |-> FALSE]
  /\ sess = [i \in Ids |-> "none"]
  /\ promise = [i \in Ids |-> "none"]
  /\ reactions = [i \in Ids |-> <<>>]
  /\ calls = [i \in Ids |-> <<>>]
  /\ procConnected = [i \in Ids |-> FALSE]
  /\ srcConnected = [i \in Ids |-> FALSE]
  /\ nFrames = 0
  /\ nMsgs = 0
  /\ stoppedEarly = {}
  /\ outputAudioContextRef = Null
  /\ nextStartTimeRef = 0
  /\ ctxTime = [i \in Ids |-> 0]
  /\ pendingDecodes = <<>>
  /\ scheduled = <<>>
  /\ deliveredSince = {}
  /\ audioSourcesRef = {}
  /\ endedSources = {}
  /\ inputData = <<>>
  /\ int16 = <<>>
  /\ chatMounted = FALSE
  /\ chat = Null
  /\ messages = <<>>
  /\ input = ""
  /\ isLoading = FALSE
  /\ chatError = NoError
  /\ requests = <<>>
  /\ sentBy = <<>>
  /\ nChats = 0
  /\ nSubmits = 0
  /\ videoMounted = FALSE
  /\ aistudio = FALSE
  /\ keyCheck = "none"
  /\ dialogs = 0
  /\ prompt = ""
  /\ initialImage = FALSE
  /\ generatedVideo = Null
  /\ videoIsLoading = FALSE
  /\ loadingMessage = 0
  /\ videoError = NoError
  /\ isKeySelected = FALSE
  /\ gen = [phase |-> "idle", doneSeen |-> FALSE, polls |-> 0]
  /\ nRuns = 0

\* ---------------------------------------------------------------- actions
\* invocations that have begun and not completed: getUserMedia is pending,
\* or the session is created and has not reported open
Incomplete == {i \in Ids : inv[i] = "awaitMic" \/ sess[i] = "connecting"}

\* a handler that does not invoke stopSession
NotAStop ==
  stoppedEarly' = stoppedEarly

\* a handler that invokes stopSession
IsAStop ==
  stoppedEarly' = stoppedEarly \cup Incomplete

\* click on the button while it shows "Start Session" (line 173)
StartClick ==
  /\ mounted
  /\ ~isSessionActive
  /\ nStarts < MaxStarts
  /\ nStarts' = nStarts + 1
  /\ inv' = [inv EXCEPT ![nStarts + 1] = "awaitMic"]
  /\ captured' = [captured EXCEPT ![nStarts + 1] = currentTranscription]
  /\ Commit(startSessionBegin(Heap))
  /\ NotAStop
  /\ deliveredSince' = {}
  /\ UNCHANGED << mounted, nFrames, nMsgs, ctxTime, endedSources, inputData, int16, chatVars, videoVars >>

\* getUserMedia resolves for invocation i and connect returns a promise
GrantMic(i) ==
  /\ inv[i] = "awaitMic"
  /\ inv' = [inv EXCEPT ![i] = "done"]
  /\ Commit(startSessionConnect(Heap, i))
  /\ NotAStop
  /\ UNCHANGED << mounted, nStarts, captured, nFrames, nMsgs,
                  ctxTime, deliveredSince, endedSources, inputData, int16, chatVars, videoVars >>

\* getUserMedia resolves for invocation i and the try block throws after it
GrantMicThrow(i, notFound) ==
  /\ inv[i] = "awaitMic"
  /\ inv' = [inv EXCEPT ![i] = "threw"]
  /\ Commit(startSessionThrow(Heap, i, notFound))
  /\ NotAStop
  /\ UNCHANGED << mounted, nStarts, captured, nFrames, nMsgs,
                  ctxTime, deliveredSince, endedSources, inputData, int16, chatVars, videoVars >>

\* getUserMedia rejects for invocation i: permission denied
DenyMic(i) ==
  /\ inv[i] = "awaitMic"
  /\ inv' = [inv EXCEPT ![i] = "denied"]
  /\ Commit(startSessionCatch(Heap, FALSE))
  /\ NotAStop
  /\ UNCHANGED << mounted, nStarts, captured, nFrames, nMsgs,
                  ctxTime, deliveredSince, endedSources, inputData, int16, chatVars, videoVars >>

\* click on the button while it shows "Stop Session" (line 173)
StopClick ==
  /\ mounted
  /\ isSessionActive
  /\ Commit(stopSession(Heap))
  /\ IsAStop
  /\ UNCHANGED << mounted, nStarts, inv, captured, nFrames, nMsgs,
                  ctxTime, deliveredSince, endedSources, inputData, int16, chatVars, videoVars >>

\* the effect cleanup on unmount (lines 160-165)
Unmount ==
  /\ mounted
  /\ mounted' = FALSE
  /\ Commit(stopSession(Heap))
  /\ IsAStop
  /\ UNCHANGED << nStarts, inv, captured, nFrames, nMsgs,
                  ctxTime, deliveredSince, endedSources, inputData, int16, chatVars, videoVars >>

\* the transport of session i opens: the onopen callback runs, then the
\* promise returned by connect is fulfilled and its queued callbacks run
OnOpen(i) ==
  /\ sess[i] = "connecting"
  /\ promise[i] = "pending"
  /\ LET h1 == onopen([Heap EXCEPT !.sess = [@ EXCEPT ![i] = "open"]], i)
         h2 == [h1 EXCEPT !.promise = [@ EXCEPT ![i] = "resolved"]]
     IN  Commit(RunReactions(h2, i))
  /\ NotAStop
  /\ UNCHANGED << mounted, nStarts, inv, captured, nFrames, nMsgs,
                  ctxTime, deliveredSince, endedSources, inputData, int16, chatVars, videoVars >>

\* the promise returned by connect is rejected: the session never opens.
\* No callback of the component is attached to the rejection.
OnReject(i) ==
  /\ sess[i] = "connecting"
  /\ promise[i] = "pending"
  /\ Commit([Heap EXCEPT !.sess      = [@ EXCEPT ![i] = "failed"],
                         !.promise   = [@ EXCEPT ![i] = "rejected"],
                         !.reactions = [@ EXCEPT ![i] = <<>>]])
  /\ NotAStop
  /\ UNCHANGED << mounted, nStarts, inv, captured, nFrames, nMsgs,
                  ctxTime, deliveredSince, endedSources, inputData, int16, chatVars, videoVars >>

\* a transport error event on session i
OnError(i) ==
  /\ sess[i] \in {"connecting", "open", "closing"}
  /\ Commit(onerror([Heap EXCEPT !.sess = [@ EXCEPT ![i] = "errored"]]))
  /\ IsAStop
  /\ UNCHANGED << mounted, nStarts, inv, captured, nFrames, nMsgs,
                  ctxTime, deliveredSince, endedSources, inputData, int16, chatVars, videoVars >>

\* the transport of session i closes: after close(), after an error, or
\* because the remote side closed it
OnClose(i) ==
  /\ sess[i] \in {"open", "closing", "errored"}
  /\ Commit(onclose([Heap EXCEPT !.sess = [@ EXCEPT ![i] = "closed"]]))
  /\ NotAStop
  /\ UNCHANGED << mounted, nStarts, inv, captured, nFrames, nMsgs,
                  ctxTime, deliveredSince, endedSources, inputData, int16, chatVars, videoVars >>

\* script processor i delivers the block x of captured samples
OnAudioProcess(i, x) ==
  /\ procConnected[i]
  /\ nFrames < MaxFrames
  /\ nFrames' = nFrames + 1
  /\ inputData' = x
  /\ int16' = EncodeBlock(x)
  /\ Commit(onaudioprocess(Heap))
  /\ NotAStop
  /\ UNCHANGED << mounted, nStarts, inv, captured, nMsgs,
                  ctxTime, deliveredSince, endedSources, chatVars,
                  videoVars >>

\* the fragments a message carries
FragsOf(m) == {m.inT, m.outT} \ {NoText}

\* session i delivers the server message m with the inline audio a: the
\* handler runs up to its await, or to its end when it schedules no audio
OnMessage(i, m, a) ==
  /\ sess[i] \in {"open", "closing"}
  /\ nMsgs < MaxMsgs
  /\ nMsgs' = nMsgs + 1
  /\ Commit(onmessageAudio(onmessage(Heap, m, captured[i]), a,
                            ctxTime[outputAudioContextRef], nMsgs + 1))
  /\ NotAStop
  /\ deliveredSince' = deliveredSince \cup FragsOf(m)
  /\ UNCHANGED << mounted, nStarts, inv, captured, nFrames, ctxTime,
                  endedSources, inputData, int16, chatVars, videoVars >>

\* a pending decode completes and the suspended onmessage runs to its end
DecodeDone ==
  /\ pendingDecodes # <<>>
  /\ LET k == decodeAudioData(pendingDecodes)
         p == pendingDecodes[k]
         h == [Heap EXCEPT !.pendingDecodes =
                 SubSeq(@, 1, k - 1) \o SubSeq(@, k + 1, Len(@))]
     IN  Commit(onmessageResume(h, p))
  /\ NotAStop
  /\ UNCHANGED << mounted, nStarts, inv, captured, nFrames, nMsgs,
                  ctxTime, deliveredSince, endedSources, inputData, int16, chatVars, videoVars >>

\* the output contexts a handler can still read the clock of
ContextsInUse ==
  {c \in Ids : c = outputAudioContextRef
                \/ \E k \in 1..Len(pendingDecodes) : pendingDecodes[k].ctx = c}

\* the audio clock of output context c advances
Tick(c) ==
  /\ c \in ContextsInUse
  /\ ctxTime[c] < MaxClock
  /\ ctxTime' = [ctxTime EXCEPT ![c] = @ + 1]
  /\ UNCHANGED << mounted, isSessionActive, transcriptions,
                  currentTranscription, error, sessionPromiseRef,
                  mediaStreamRef, scriptProcessorRef, mediaStreamSourceRef,
                  nStarts, inv, captured, streamLive, sess, promise,
                  reactions, calls, procConnected, srcConnected, nFrames,
                  nMsgs, stoppedEarly, outputAudioContextRef,
                  nextStartTimeRef, pendingDecodes, scheduled,
                  deliveredSince, audioSourcesRef, endedSources, inputData, int16, chatVars, videoVars >>

\* the source numbered n has played to its end on its context: its ended
\* event fires and the listener runs
Ended(n) ==
  /\ n \notin endedSources
  /\ \E k \in 1..Len(scheduled) :
        /\ scheduled[k].seq = n
        /\ ctxTime[scheduled[k].ctx] >= scheduled[k].start + scheduled[k].dur
  /\ endedSources' = endedSources \cup {n}
  /\ Commit(onended(Heap, n))
  /\ NotAStop
  /\ UNCHANGED << mounted, nStarts, inv, captured, nFrames, nMsgs,
                  ctxTime, deliveredSince, inputData, int16, chatVars, videoVars >>

Next ==
  \/ StartClick
  \/ StopClick
  \/ Unmount
  \/ \E i \in Ids : GrantMic(i)
  \/ \E i \in Ids, nf \in BOOLEAN : GrantMicThrow(i, nf)
  \/ \E i \in Ids : DenyMic(i)
  \/ \E i \in Ids : OnOpen(i)
  \/ \E i \in Ids : OnReject(i)
  \/ \E i \in Ids : OnError(i)
  \/ \E i \in Ids : OnClose(i)
  \/ \E i \in Ids, n \in Samples : OnAudioProcess(i, << n >>)
  \/ \E i \in Ids, m \in Messages, a \in Audio : OnMessage(i, m, a)
  \/ DecodeDone
  \/ \E c \in Ids : Tick(c)
  \/ \E n \in 1..MaxMsgs : Ended(n)

Spec == Init /\ [][Next]_vars

\* The component with a server that sends no message: the lifecycle of the
\* streams, sessions and capture nodes.  onmessage writes the transcript
\* state only, which no other handler but startSession's closure reads.
NextLifecycle ==
  \/ StartClick
  \/ StopClick
  \/ Unmount
  \/ \E i \in Ids : GrantMic(i)
  \/ \E i \in Ids, nf \in BOOLEAN : GrantMicThrow(i, nf)
  \/ \E i \in Ids : DenyMic(i)
  \/ \E i \in Ids : OnOpen(i)
  \/ \E i \in Ids : OnReject(i)
  \/ \E i \in Ids : OnError(i)
  \/ \E i \in Ids : OnClose(i)
  \/ \E i \in Ids : OnAudioProcess(i, SilentBlock)

SpecLifecycle == Init /\ [][NextLifecycle]_vars

\* The component with the lifecycle reduced to start, grant, open, stop and
\* close, and a server that sends transcript messages: the aggregation of
\* turns over one or several sessions.
NextTranscript ==
  \/ StartClick
  \/ StopClick
  \/ \E i \in Ids : GrantMic(i)
  \/ \E i \in Ids : OnOpen(i)
  \/ \E i \in Ids : OnClose(i)
  \/ \E i \in Ids, m \in Messages : OnMessage(i, m, NoAudio)

SpecTranscript == Init /\ [][NextTranscript]_vars

\* The component with the lifecycle reduced to start, grant, open and stop,
\* and a server that sends audio chunks: the scheduling of the playback.
\* The sessions follow one another: the user starts a session when the
\* earlier invocations of startSession have run to their end.
NextPlayback ==
  \/ StartClick /\ Incomplete = {}
  \/ StopClick
  \/ \E i \in Ids : GrantMic(i)
  \/ \E i \in Ids : OnOpen(i)
  \/ \E i \in Ids, a \in Durations : OnMessage(i, NoTextMsg, a)
  \/ DecodeDone
  \/ \E c \in Ids : Tick(c)

SpecPlayback == Init /\ [][NextPlayback]_vars

\* One session that is started, opens and is never stopped, and a server
\* that sends transcriptions, turn-completes and audio chunks: the handling
\* of the messages of a session.
NextOneSession ==
  \/ StartClick
  \/ \E i \in Ids : GrantMic(i)
  \/ \E i \in Ids : OnOpen(i)
  \/ \E i \in Ids, m \in Messages, a \in Audio : OnMessage(i, m, a)
  \/ DecodeDone
  \/ \E c \in Ids : Tick(c)

SpecOneSession == Init /\ [][NextOneSession]_vars

\* One session, which the user may stop, and a server that sends audio
\* chunks, with the playback running to the end of the sources: the live
\* set.
NextLiveSet ==
  \/ StartClick /\ nStarts = 0
  \/ StopClick
  \/ \E i \in Ids : GrantMic(i)
  \/ \E i \in Ids : OnOpen(i)
  \/ \E i \in Ids, a \in Audio : OnMessage(i, NoTextMsg, a)
  \/ DecodeDone
  \/ \E c \in Ids : Tick(c)
  \/ \E n \in 1..MaxMsgs : Ended(n)

SpecLiveSet == Init /\ [][NextLiveSet]_vars

\* One session that opens, and a microphone that delivers blocks of one
\* sample: the encoding of the captured samples.
NextEncoder ==
  \/ StartClick
  \/ \E i \in Ids : GrantMic(i)
  \/ \E i \in Ids : OnOpen(i)
  \/ \E i \in Ids, n \in Samples : OnAudioProcess(i, << n >>)

SpecEncoder == Init /\ [][NextEncoder]_vars

\* ------------------------------------------------- actions of the Chatbot
\* the effect of the first render (lines 36-38)
ChatMount(ok) ==
  /\ ~chatMounted
  /\ chatMounted' = TRUE
  /\ ChatCommit(initializeChat(ChatHeap, ok))
  /\ UNCHANGED << nSubmits, liveVars, videoVars >>

\* click on New Chat (line 84)
NewChat(ok) ==
  /\ chatMounted
  /\ nChats < MaxChats
  /\ ChatCommit(handleNewChat(ChatHeap, ok))
  /\ UNCHANGED << chatMounted, nSubmits, liveVars, videoVars >>

\* the user edits the input field, which is disabled while loading
\* (lines 109-113)
TypeInput(v) ==
  /\ chatMounted
  /\ ~isLoading
  /\ input' = v
  /\ UNCHANGED << chatMounted, chat, messages, isLoading, chatError, requests,
                  sentBy, nChats, nSubmits, liveVars, videoVars >>

\* the form is submitted (line 106)
Submit ==
  /\ chatMounted
  /\ nSubmits < MaxSubmits
  /\ Len(requests) < MaxReqs
  /\ nSubmits' = nSubmits + 1
  /\ ChatCommit(handleSendMessage(ChatHeap))
  /\ UNCHANGED << chatMounted, liveVars, videoVars >>

\* the promise of sendMessage resolves (line 61)
SendResolves(r, t) ==
  /\ r \in 1..Len(requests)
  /\ requests[r].st = "pending"
  /\ ChatCommit(sendResolved(ChatHeap, r, t))
  /\ UNCHANGED << chatMounted, nSubmits, liveVars, videoVars >>

\* the promise of sendMessage rejects (line 64)
SendRejects(r, notFound) ==
  /\ r \in 1..Len(requests)
  /\ requests[r].st = "pending"
  /\ ChatCommit(sendRejected(ChatHeap, r, notFound))
  /\ UNCHANGED << chatMounted, nSubmits, liveVars, videoVars >>

NextChatbot ==
  \/ \E ok \in BOOLEAN : ChatMount(ok)
  \/ \E ok \in BOOLEAN : NewChat(ok)
  \/ \E v \in Inputs : TypeInput(v)
  \/ Submit
  \/ \E r \in 1..MaxReqs, t \in Replies : SendResolves(r, t)
  \/ \E r \in 1..MaxReqs, nf \in BOOLEAN : SendRejects(r, nf)

SpecChatbot == Init /\ [][NextChatbot]_vars

\* ------------------------------------------ actions of the VideoGenerator
\* what no handler of the VideoGenerator writes but the mount and the key
\* dialogs
keyVars == << videoMounted, aistudio, keyCheck, dialogs >>

\* the mount effect (lines 28-36): checkApiKey calls hasSelectedApiKey when
\* window.aistudio exists
VideoMount(present) ==
  /\ ~videoMounted
  /\ videoMounted' = TRUE
  /\ aistudio' = present
  /\ keyCheck' = IF present THEN "pending" ELSE "none"
  /\ UNCHANGED << dialogs, prompt, initialImage, generatedVideo,
                  videoIsLoading, loadingMessage, videoError, isKeySelected,
                  gen, nRuns, liveVars, chatVars >>

\* hasSelectedApiKey resolves (lines 31-32)
CheckApiKeyDone(hasKey) ==
  /\ keyCheck = "pending"
  /\ keyCheck' = "done"
  /\ isKeySelected' = hasKey
  /\ UNCHANGED << videoMounted, aistudio, dialogs, prompt, initialImage,
                  generatedVideo, videoIsLoading, loadingMessage, videoError,
                  gen, nRuns, liveVars, chatVars >>

\* click on Select API Key, shown while no key is selected (lines 131-146):
\* handleSelectKey up to the await (lines 51-54)
SelectKeyClick ==
  /\ videoMounted
  /\ ~isKeySelected
  /\ dialogs < MaxDialogs
  /\ dialogs' = IF aistudio THEN dialogs + 1 ELSE dialogs
  /\ UNCHANGED << videoMounted, aistudio, keyCheck, prompt, initialImage,
                  generatedVideo, videoIsLoading, loadingMessage, videoError,
                  isKeySelected, gen, nRuns, liveVars, chatVars >>

\* openSelectKey resolves (line 56) or rejects (lines 57-60)
SelectKeyDone(ok) ==
  /\ dialogs > 0
  /\ dialogs' = dialogs - 1
  /\ isKeySelected' = IF ok THEN TRUE ELSE isKeySelected
  /\ videoError' = IF ok THEN videoError ELSE MsgDialog
  /\ UNCHANGED << videoMounted, aistudio, keyCheck, prompt, initialImage,
                  generatedVideo, videoIsLoading, loadingMessage, gen, nRuns,
                  liveVars, chatVars >>

\* the user edits the prompt, which is disabled while loading
\* (lines 154-160)
TypePrompt(v) ==
  /\ videoMounted
  /\ isKeySelected
  /\ ~videoIsLoading
  /\ prompt' = v
  /\ UNCHANGED << keyVars, initialImage, generatedVideo, videoIsLoading,
                  loadingMessage, videoError, isKeySelected, gen, nRuns,
                  liveVars, chatVars >>

\* the user chooses an image (lines 64-69, 182)
ChooseImage ==
  /\ videoMounted
  /\ isKeySelected
  /\ initialImage' = TRUE
  /\ UNCHANGED << keyVars, prompt, generatedVideo, videoIsLoading,
                  loadingMessage, videoError, isKeySelected, gen, nRuns,
                  liveVars, chatVars >>

\* the interval of the loading effect (lines 38-49)
LoadingTick ==
  /\ videoIsLoading
  /\ loadingMessage' = (loadingMessage + 1) % NumLoadingMessages
  /\ UNCHANGED << keyVars, prompt, initialImage, generatedVideo,
                  videoIsLoading, videoError, isKeySelected, gen, nRuns,
                  liveVars, chatVars >>

\* click on Generate Video (line 185): the button gets isLoading and is
\* disabled while the prompt is empty
GenerateClick(ok) ==
  /\ videoMounted
  /\ isKeySelected
  /\ prompt # ""
  /\ ~videoIsLoading
  /\ nRuns < MaxRuns
  /\ VideoCommit(handleGenerate(VideoHeap, ok))
  /\ UNCHANGED << keyVars, liveVars, chatVars >>

\* fileToBase64 resolves (line 96)
ImageEncoded ==
  /\ gen.phase = "image"
  /\ VideoCommit(imageEncoded(VideoHeap))
  /\ UNCHANGED << keyVars, liveVars, chatVars >>

\* generateVideos or getVideosOperation resolves (lines 101, 105)
OperationArrives(done, uri) ==
  /\ gen.phase \in {"create", "poll"}
  /\ done \/ gen.polls < MaxPolls
  /\ VideoCommit(operationArrived(VideoHeap, done, uri))
  /\ UNCHANGED << keyVars, liveVars, chatVars >>

\* the timer of line 104 fires
TimerFires ==
  /\ gen.phase = "sleep"
  /\ VideoCommit(timerFired(VideoHeap))
  /\ UNCHANGED << keyVars, liveVars, chatVars >>

\* fetch resolves (line 111)
FetchResolves(ok) ==
  /\ gen.phase = "fetch"
  /\ VideoCommit(fetchResolved(VideoHeap, ok))
  /\ UNCHANGED << keyVars, liveVars, chatVars >>

\* blob resolves (line 113)
BlobResolves ==
  /\ gen.phase = "blob"
  /\ VideoCommit(blobResolved(VideoHeap))
  /\ UNCHANGED << keyVars, liveVars, chatVars >>

\* the call awaited by the run rejects (lines 96, 101, 105, 111, 113)
CallRejects(notFound) ==
  /\ gen.phase \in {"image", "create", "poll", "fetch", "blob"}
  /\ VideoCommit(generateFailed(VideoHeap, notFound))
  /\ UNCHANGED << keyVars, liveVars, chatVars >>

NextVideo ==
  \/ \E present \in BOOLEAN : VideoMount(present)
  \/ \E hasKey \in BOOLEAN : CheckApiKeyDone(hasKey)
  \/ SelectKeyClick
  \/ \E ok \in BOOLEAN : SelectKeyDone(ok)
  \/ \E v \in Prompts : TypePrompt(v)
  \/ ChooseImage
  \/ LoadingTick
  \/ \E ok \in BOOLEAN : GenerateClick(ok)
  \/ ImageEncoded
  \/ \E done, uri \in BOOLEAN : OperationArrives(done, uri)
  \/ TimerFires
  \/ \E ok \in BOOLEAN : FetchResolves(ok)
  \/ BlobResolves
  \/ \E nf \in BOOLEAN : CallRejects(nf)

SpecVideo == Init /\ [][NextVideo]_vars

\* ------------------------------------------------------------- type check
InvStates  == {"idle", "awaitMic", "done", "threw", "denied"}
SessStates == {"none", "connecting", "open", "closing", "errored",
               "closed", "failed"}

TypeOK ==
  /\ mounted \in BOOLEAN
  /\ isSessionActive \in BOOLEAN
  /\ error \in {NoError, MsgSession, MsgApiKey, MsgMic}
  /\ sessionPromiseRef \in Ids \cup {Null}
  /\ mediaStreamRef \in Ids \cup {Null}
  /\ scriptProcessorRef \in Ids \cup {Null}
  /\ mediaStreamSourceRef \in Ids \cup {Null}
  /\ nStarts \in 0..MaxStarts
  /\ inv \in [Ids -> InvStates]
  /\ sess \in [Ids -> SessStates]
  /\ promise \in [Ids -> {"none", "pending", "resolved", "rejected"}]
  /\ streamLive \in [Ids -> BOOLEAN]
  /\ procConnected \in [Ids -> BOOLEAN]
  /\ srcConnected \in [Ids -> BOOLEAN]
  /\ nFrames \in 0..MaxFrames
  /\ nMsgs \in 0..MaxMsgs
  /\ stoppedEarly \subseteq Ids
  /\ outputAudioContextRef \in Ids \cup {Null}
  /\ nextStartTimeRef \in 0..(MaxClock + MaxMsgs * MaxDur)
  /\ ctxTime \in [Ids -> 0..MaxClock]
  /\ Len(pendingDecodes) + Len(scheduled) <= MaxMsgs
  /\ deliveredSince \subseteq Frags
  /\ audioSourcesRef \subseteq 1..MaxMsgs
  /\ endedSources \subseteq 1..MaxMsgs
  /\ inputData \in Seq(Samples) /\ Len(inputData) <= 1
  /\ int16 \in Seq(-32768..32767) /\ Len(int16) = Len(inputData)
  /\ chatMounted \in BOOLEAN
  /\ chat \in 0..MaxChats
  /\ nChats \in 0..MaxChats
  /\ \A k \in 1..Len(messages) : messages[k] \in ChatMessages
  /\ Len(sentBy) = Len(messages)
  /\ \A k \in 1..Len(sentBy) : sentBy[k] \in 0..Len(requests)
  /\ input \in Inputs
  /\ isLoading \in BOOLEAN
  /\ chatError \in {NoError, MsgChatInit, MsgChatKey, MsgChatFail}
  /\ Len(requests) <= MaxReqs
  /\ \A r \in 1..Len(requests) :
        requests[r] \in [st : {"pending", "done"}, chat : 1..MaxChats]
  /\ nSubmits \in 0..MaxSubmits
  /\ videoMounted \in BOOLEAN
  /\ aistudio \in BOOLEAN
  /\ keyCheck \in {"none", "pending", "done"}
  /\ dialogs \in 0..MaxDialogs
  /\ prompt \in Prompts
  /\ initialImage \in BOOLEAN
  /\ generatedVideo \in 0..MaxRuns
  /\ videoIsLoading \in BOOLEAN
  /\ loadingMessage \in 0..(NumLoadingMessages - 1)
  /\ videoError \in {NoError, MsgPrompt, MsgVideoKey, MsgVideoFail, MsgDialog}
  /\ isKeySelected \in BOOLEAN
  /\ gen \in [phase : Phases, doneSeen : BOOLEAN, polls : 0..MaxPolls]
  /\ nRuns \in 0..MaxRuns

\* ------------------------------------------------------- derived notions
\* the calls made on session s followed by the calls still queued on it
OpsOf(s) == [k \in 1..Len(calls[s]) |-> calls[s][k].op] \o reactions[s]

HasCall(s, op) == \E k \in 1..Len(calls[s]) : calls[s][k].op = op

\* invocation i has run to its end without a throw after getUserMedia, and
\* its session, if any, has left Opening
Settled(i) == inv[i] \in {"done", "denied"} /\ sess[i] # "connecting"

\* nothing acquired by invocation i is live
Released(i) == ~streamLive[i] /\ sess[i] # "open" /\ ~procConnected[i]

AllRefsNull ==
  /\ sessionPromiseRef = Null
  /\ mediaStreamRef = Null
  /\ scriptProcessorRef = Null
  /\ mediaStreamSourceRef = Null

\* ------------------------------------------------------------------ claims

\* C1: if stopSession is invoked after startSession has begun and before it
\* completes (getUserMedia pending, or the session not yet open), then once
\* the invocation's callbacks have run there is no live stream, no open
\* session, no connected capture node, and the active flag is false.
C1_StopBeforeStartCompletes ==
  \A i \in stoppedEarly :
     (nStarts = i /\ Settled(i)) => (Released(i) /\ ~isSessionActive)

\* C2: at most one session created by the component is open at a time.
C2_AtMostOneOpenSession ==
  Cardinality({i \in Ids : sess[i] = "open"}) <= 1

\* C3: once stopSession has requested the close of a session, no further
\* sendRealtimeInput is issued for it: in the order of the calls made and
\* queued on a session, no send comes after a close.
C3_NoSendAfterStop ==
  \A s \in Ids :
     \A j, k \in 1..Len(OpsOf(s)) :
        (j < k /\ OpsOf(s)[j] = "close") => OpsOf(s)[k] # "send"

\* a captured frame was sent on a session and the session was closed after it
C3_Witness ==
  \E s \in Ids :
     /\ Len(calls[s]) >= 2
     /\ calls[s][1].op = "send"
     /\ calls[s][Len(calls[s])].op = "close"

\* C4: sendRealtimeInput is never invoked on a session that is not Open.
C4_NoSendUnlessOpen ==
  \A s \in Ids :
     \A k \in 1..Len(calls[s]) :
        calls[s][k].op = "send" => calls[s][k].st = "open"

\* C5: stopSession, invoked in any state the component reaches, leaves
\* every owned handle null and the active flag false, and a second
\* invocation right after it changes nothing: no further close, disconnect
\* or track stop.
C5_StopIdempotent ==
  LET h1 == stopSession(Heap)
      h2 == stopSession(h1)
  IN  /\ h1.sessionPromiseRef = Null
      /\ h1.mediaStreamRef = Null
      /\ h1.scriptProcessorRef = Null
      /\ h1.mediaStreamSourceRef = Null
      /\ ~h1.isSessionActive
      /\ h2 = h1

\* stopSession has torn down a session that was open and capturing
C5_Witness ==
  /\ AllRefsNull
  /\ ~isSessionActive
  /\ \E s \in Ids :
        /\ \E k \in 1..Len(calls[s]) :
              calls[s][k].op = "close" /\ calls[s][k].st = "open"
        /\ inv[s] = "done" /\ ~streamLive[s] /\ ~procConnected[s]
        /\ sess[s] = "closing"

\* C6: a transport error on an Opening or Open session performs the teardown
\* of stopSession on the handles the component holds: close is requested on
\* the session held, the processor and source nodes held are disconnected,
\* the tracks of the stream held are stopped, every handle is null, the
\* active flag is false and the error message is set.
C6_ErrorTearsDown ==
  [][ \A i \in Ids :
        (sess[i] \in {"connecting", "open"} /\ sess'[i] = "errored") =>
          /\ error' = MsgSession
          /\ error' # NoError
          /\ ~isSessionActive'
          /\ AllRefsNull'
          /\ \A r \in Ids :
                (r = sessionPromiseRef /\ promise[r] # "rejected") =>
                   (OpsOf(r)' # <<>> /\ OpsOf(r)'[Len(OpsOf(r)')] = "close")
          /\ \A r \in Ids : r = scriptProcessorRef => ~procConnected'[r]
          /\ \A r \in Ids : r = mediaStreamSourceRef => ~srcConnected'[r]
          /\ \A r \in Ids : r = mediaStreamRef => ~streamLive'[r]
    ]_vars

\* an open session that was capturing got a transport error and was torn down
C6_Witness ==
  \E i \in Ids :
     /\ sess[i] = "errored"
     /\ error = MsgSession
     /\ \E k \in 1..Len(calls[i]) :
           calls[i][k].op = "close" /\ calls[i][k].st = "errored"
     /\ srcConnected[i] = FALSE /\ procConnected[i] = FALSE
     /\ inv[i] = "done" /\ ~streamLive[i]

\* C7: when the session fails to open (the connect promise is rejected) the
\* microphone stream acquired for it is stopped, and the active flag is
\* false unless a later startSession set it again.
C7_OpenFailureTearsDown ==
  \A i \in Ids :
     sess[i] = "failed" => (~streamLive[i] /\ (nStarts = i => ~isSessionActive))

\* C8 as stated: when microphone permission is denied the active flag is
\* false before and after the denial, the permission message is set and no
\* session exists for the invocation.
C8_DeniedNeverActive ==
  [][ \A i \in Ids :
        (inv[i] = "awaitMic" /\ inv'[i] = "denied") =>
          /\ ~isSessionActive /\ ~isSessionActive'
          /\ error' = MsgMic
          /\ sess'[i] = "none" ]_vars

\* C8 amended: startSession sets the active flag when invoked; once the
\* denial is handled the flag is false, the permission message is set, and
\* no session is ever created for the invocation.
C8_DeniedEndsInactive ==
  /\ [] (\A i \in Ids : inv[i] = "denied" =>
            (sess[i] = "none" /\ promise[i] = "none" /\ ~streamLive[i]))
  /\ [][ \A i \in Ids :
           (inv[i] = "awaitMic" /\ inv'[i] = "denied") =>
             /\ ~isSessionActive'
             /\ error' = MsgMic
             /\ UNCHANGED << sess, promise, sessionPromiseRef >> ]_vars

\* permission was denied while the button showed the session as active
C8_Witness ==
  \E i \in Ids :
     inv[i] = "denied" /\ error = MsgMic /\ ~isSessionActive /\ i \notin stoppedEarly

\* the text a message adds to a turn (the concatenation the claims speak of)
Accumulate(t, m) ==
  [user  |-> IF m.inT  # NoText THEN t.user  \o <<m.inT>>  ELSE t.user,
   model |-> IF m.outT # NoText THEN t.model \o <<m.outT>> ELSE t.model]

\* C9: on turn-complete the history gains exactly one turn, the text
\* accumulated in the current turn in arrival order, and the current turn
\* is then empty.
C9_TurnCompleteSnapshot ==
  [][ Len(transcriptions') = Len(transcriptions) + 1 =>
        /\ currentTranscription' = EmptyTurn
        /\ \E m \in Messages :
              /\ m.tc
              /\ transcriptions' =
                   Append(transcriptions, Accumulate(currentTranscription, m))
    ]_vars

\* C10: in any session, a turn-complete without text that arrives when the
\* current turn is empty appends a turn with both fields empty and leaves
\* the current turn empty.
C10_EmptyTurnComplete ==
  \A i \in Ids :
     (sess[i] \in {"open", "closing"} /\ currentTranscription = EmptyTurn) =>
        LET h == onmessage(Heap, [inT |-> NoText, outT |-> NoText, tc |-> TRUE],
                           captured[i])
        IN  /\ h.transcriptions = Append(transcriptions, EmptyTurn)
            /\ h.currentTranscription = EmptyTurn

\* the fragments of a turn of the history
Range(q) == {q[k] : k \in 1..Len(q)}
TextOf(t) == Range(t.user) \cup Range(t.model)

\* the sessions before the latest one have ended: stopped and closing, or
\* closed
EarlierSessionsEnded ==
  \A i \in Ids : i < nStarts => (inv[i] = "done" /\ sess[i] \in {"closing", "closed"})

\* C11: the text of a turn that was not finalized when its session ended is
\* never added to the history, neither at the end of that session nor by an
\* event of a later session: when the earlier sessions have ended, every
\* turn of the history holds only text delivered since the last start.
C11_UnfinalizedTurnDropped ==
  EarlierSessionsEnded =>
     \A k \in 1..Len(transcriptions) :
        TextOf(transcriptions[k]) \subseteq deliveredSince

RECURSIVE SumDurFrom(_, _)
SumDurFrom(q, j) == IF j > Len(q) THEN 0 ELSE q[j].dur + SumDurFrom(q, j + 1)

\* C13 as stated: in one session, the cursor after the last chunk has been
\* scheduled equals the maximum of the clock time at the first chunk and the
\* sum of the durations.
C13_SpanIsMax ==
  (nStarts = 1 /\ Len(scheduled) >= 1 /\ pendingDecodes = <<>>) =>
     nextStartTimeRef = Max(scheduled[1].arr, SumDurFrom(scheduled, 1))

\* C13 amended: the cursor after the last chunk has been scheduled is at
\* least the clock time at the first chunk plus the sum of the durations,
\* counting from any chunk as the first; in the first session it equals that
\* sum when all chunks arrived at the clock time of the first.
C13_SpanIsClockPlusSum ==
  /\ \A j \in 1..Len(scheduled) :
        nextStartTimeRef >= scheduled[j].arr + SumDurFrom(scheduled, j)
  /\ (/\ nStarts = 1 /\ Len(scheduled) >= 1 /\ pendingDecodes = <<>>
      /\ \A k \in 1..Len(scheduled) : scheduled[k].arr = scheduled[1].arr) =>
        nextStartTimeRef = scheduled[1].arr + SumDurFrom(scheduled, 1)

\* one session scheduled two chunks that arrived when the clock had advanced
C13_Witness ==
  /\ nStarts = 1 /\ Len(scheduled) = 2 /\ pendingDecodes = <<>>
  /\ scheduled[1].arr >= 1
  /\ scheduled[2].arr = scheduled[1].arr
  /\ nextStartTimeRef = scheduled[1].arr + SumDurFrom(scheduled, 1)

\* C14: the cursor is 0 at the start of every session, the first and every
\* later one: when the earlier sessions have ended, a step that starts a
\* session (startSession is invoked) or opens one (onopen makes its output
\* context) leaves nextStartTimeRef at 0.
C14_CursorZeroAtStart ==
  [][ (/\ \A i \in Ids : i <= nStarts =>
             (inv[i] = "done" /\ sess[i] \in {"closing", "closed"})
       /\ \/ nStarts' = nStarts + 1
          \/ outputAudioContextRef' # outputAudioContextRef)
        => nextStartTimeRef' = 0 ]_vars

\* C15: after stopSession no new audio chunk is scheduled: when every
\* session has been stopped and is closing or closed, and no decode is
\* pending, no step (a message with inline audio delivered before the
\* session has finished closing included) suspends a handler for a decode,
\* starts a source or moves the cursor.
C15_NoSchedulingAfterStop ==
  [][ (/\ ~isSessionActive /\ nStarts >= 1 /\ pendingDecodes = <<>>
       /\ \A i \in Ids : i <= nStarts =>
             (inv[i] = "done" /\ sess[i] \in {"closing", "closed"}))
        => /\ pendingDecodes' = <<>>
           /\ scheduled' = scheduled
           /\ nextStartTimeRef' = nextStartTimeRef ]_vars

\* C16: no frame is captured or sent before the session reports open: the
\* capture node of a session exists only once that session has opened, no
\* call reaches a session that has not opened, and an onopen that arrives
\* after the microphone stream of its invocation was released creates no
\* capture node.
C16_CaptureOnlyAfterOpen ==
  /\ [] (\A i \in Ids :
          /\ procConnected[i] => promise[i] = "resolved"
          /\ \A k \in 1..Len(calls[i]) :
                calls[i][k].st \notin {"none", "connecting"})
  /\ [][ \A i \in Ids :
           (promise[i] = "pending" /\ promise'[i] = "resolved" /\ ~streamLive[i])
             => (~procConnected'[i] /\ ~srcConnected'[i]) ]_vars

\* C17: a message without inline audio is dropped by the audio branch and is
\* not fatal: delivered by any session that can deliver, it leaves the
\* cursor, the pending decodes, the scheduled sources, the session state,
\* the active flag and the error as they were, while its transcript part is
\* applied: the fragments are appended to the current turn, and on
\* turn-complete the history gains a turn and the current turn is emptied.
C17_MissingAudioIgnored ==
  \A cap \in {captured[i] :
                i \in {j \in Ids : sess[j] \in {"open", "closing"}}} :
     \A m \in Messages :
        LET H  == Heap
            hT == onmessage(H, m, cap)
            h  == onmessageAudio(hT, NoAudio, ctxTime[outputAudioContextRef],
                                 nMsgs + 1)
        IN  /\ h = hT
            /\ h.nextStartTimeRef = nextStartTimeRef
            /\ h.pendingDecodes = pendingDecodes
            /\ h.scheduled = scheduled
            /\ h.sess = sess
            /\ h.isSessionActive = isSessionActive
            /\ h.error = error
            /\ h.currentTranscription =
                  (IF m.tc THEN EmptyTurn ELSE Accumulate(currentTranscription, m))
            /\ Len(h.transcriptions) =
                  Len(transcriptions) + (IF m.tc THEN 1 ELSE 0)

\* the open session delivered a chunk, which is scheduled, and then a
\* message with a transcription and without inline audio: the text is in
\* the turn, nothing more is pending or scheduled and the cursor stands at
\* the end of the chunk
C17_Witness ==
  /\ sess[1] = "open" /\ outputAudioContextRef = 1
  /\ nMsgs = 2 /\ currentTranscription # EmptyTurn
  /\ pendingDecodes = <<>> /\ Len(scheduled) = 1 /\ scheduled[1].seq = 1
  /\ nextStartTimeRef = scheduled[1].start + scheduled[1].dur

\* what each teardown step of stopSession may change
SessionFields   == {"sessionPromiseRef", "sess", "calls", "reactions"}
ProcessorFields == {"scriptProcessorRef", "procConnected"}
SourceFields    == {"mediaStreamSourceRef", "srcConnected"}
StreamFields    == {"mediaStreamRef", "streamLive"}

\* the records g and h agree outside the fields F
SameOutside(g, h, F) == \A f \in (DOMAIN h) \ F : g[f] = h[f]

\* C18: stopSession, invoked in any state of the mounted component, works
\* in the order session, processor, source, stream and clears the flag
\* last, and in none of the states it goes through is the flag already
\* false while a teardown step is still to do its work.
C18_FlagClearedLast ==
  mounted =>
    LET q == stopSessionStates(Heap)
    IN  /\ SameOutside(q[2], q[1], SessionFields)
        /\ SameOutside(q[3], q[2], ProcessorFields)
        /\ SameOutside(q[4], q[3], SourceFields)
        /\ SameOutside(q[5], q[4], StreamFields)
        /\ stopSession(Heap) = [q[5] EXCEPT !.isSessionActive = FALSE]
        /\ \A k \in 1..5 : ~q[k].isSessionActive => q[5] = q[k]

\* C19: when a chunk is scheduled in an active session, the start time
\* passed to playback is the maximum of the cursor and the clock of its
\* output context at that moment, so not earlier than that clock, and the
\* cursor afterwards is the start time plus the duration of the chunk.
C19_StartIsMaxAtScheduling ==
  [][ (isSessionActive /\ Len(scheduled') = Len(scheduled) + 1) =>
        \E k \in 1..Len(pendingDecodes) :
           LET p == pendingDecodes[k]
               e == scheduled'[Len(scheduled) + 1]
           IN  /\ e.seq = p.seq
               /\ e.start = Max(nextStartTimeRef, ctxTime[p.ctx])
               /\ nextStartTimeRef' = e.start + e.dur ]_vars

C21_LiveSetExact ==
  audioSourcesRef = {scheduled[k].seq : k \in 1..Len(scheduled)} \ endedSources

\* two sources were scheduled, the first has played to its end and left the
\* set, the second is still in it
C21_Witness ==
  /\ Len(scheduled) = 2
  /\ endedSources = {scheduled[1].seq}
  /\ audioSourcesRef = {scheduled[2].seq}

\* C22: a sample in the closed range [-1, 1] is encoded as the sample times
\* 32768 truncated toward zero, and that value lies in [-32768, 32767], so
\* no wraparound takes place.
C22_InRangeEncodedExactly ==
  \A k \in 1..Len(inputData) :
     (-SampleDen <= inputData[k] /\ inputData[k] <= SampleDen) =>
        /\ int16[k] = Scaled(inputData[k])
        /\ -32768 <= Scaled(inputData[k])
        /\ Scaled(inputData[k]) <= 32767

\* C23: a sample whose product with 32768, truncated toward zero, lies
\* outside [-32768, 32767] is stored as that integer reduced modulo 2^16
\* into the signed 16-bit range.
C23_OutOfRangeWraps ==
  \A k \in 1..Len(inputData) :
     LET t == Scaled(inputData[k]) IN
     (t < -32768 \/ t > 32767) =>
        int16[k] = ((t + 32768) % 65536) - 32768

\* a block with a sample just below -1 was encoded: the product -32769 is
\* stored as 32767, not as the nearest boundary -32768
C23_Witness ==
  /\ Len(inputData) = 1
  /\ Scaled(inputData[1]) = -32769
  /\ int16[1] = 32767

\* C24: when the active flag is false and no startSession call is in
\* progress, every resource is released: no microphone stream is unstopped,
\* no capture or processing node is connected, and no session is open
\* without a close having been requested.  Stated for the runs in which
\* stopSession never interrupted a start, so that the flag became false at
\* the end of a complete start.
C24_InactiveMeansReleased ==
  (/\ ~isSessionActive
   /\ stoppedEarly = {}
   /\ \A i \in Ids : inv[i] # "awaitMic") =>
     \A i \in Ids :
        /\ ~streamLive[i]
        /\ ~procConnected[i]
        /\ ~srcConnected[i]
        /\ sess[i] = "open" => "close" \in Range(OpsOf(i))

\* C25: a reference is never overwritten while it refers to a live
\* resource: when a new stream, session promise, source node or processor
\* node is stored, the previous value is null or refers to a stream already
\* stopped, a session closed, failed or asked to close, a node already
\* disconnected.  Stated for the runs in which stopSession never
\* interrupted a start.
C25_NoLiveHandleOverwritten ==
  [][ stoppedEarly' = {} =>
        /\ (mediaStreamRef # Null /\ mediaStreamRef' \notin {Null, mediaStreamRef})
              => ~streamLive[mediaStreamRef]
        /\ (sessionPromiseRef # Null
               /\ sessionPromiseRef' \notin {Null, sessionPromiseRef})
              => \/ sess[sessionPromiseRef] \in {"closed", "failed"}
                 \/ "close" \in Range(OpsOf(sessionPromiseRef))
        /\ (mediaStreamSourceRef # Null
               /\ mediaStreamSourceRef' \notin {Null, mediaStreamSourceRef})
              => ~srcConnected[mediaStreamSourceRef]
        /\ (scriptProcessorRef # Null
               /\ scriptProcessorRef' \notin {Null, scriptProcessorRef})
              => ~procConnected[scriptProcessorRef] ]_vars

\* C26: every startSession invocation sets the error to null, the history
\* to empty and the current turn to empty fields, and no turn of an earlier
\* session is visible in the history of a later one: every turn of the
\* history holds only text delivered since the last start.
C26_StartsClean ==
  /\ [][ nStarts' # nStarts =>
           /\ error' = NoError
           /\ transcriptions' = <<>>
           /\ currentTranscription' = EmptyTurn ]_vars
  /\ [] (\A k \in 1..Len(transcriptions) :
           TextOf(transcriptions[k]) \subseteq deliveredSince)

\* C27: after handleNewChat the message list holds the greeting followed
\* only by messages of exchanges submitted after the reset: every message
\* but the greeting belongs to a request sent on the current chat.
C27_OnlyCurrentChatMessages ==
  chat # Null =>
     /\ messages[1] = Greeting
     /\ \A k \in 2..Len(messages) :
           /\ sentBy[k] # 0
           /\ requests[sentBy[k]].chat = chat

\* the requests awaiting their reply
PendingRequests == {r \in 1..Len(requests) : requests[r].st = "pending"}

\* C28: a submit with a blank input, during a request, or without a chat
\* changes nothing and sends nothing; at most one request is in flight, and
\* isLoading is true exactly while one is; an accepted submit appends the
\* user message and sends one request; the settling of a request appends
\* one model message, the reply or the apology, and clears isLoading; no
\* request has more than one user and one model message in the list.
C28_SubmitDiscipline ==
  LET H == ChatHeap
      S == handleSendMessage(H)
  IN  /\ (Trim(input) = "" \/ isLoading \/ chat = Null) => S = H
      /\ ~(Trim(input) = "" \/ isLoading \/ chat = Null) =>
            /\ S.messages = Append(messages, [role |-> "user", text |-> input])
            /\ S.requests = Append(requests, [st |-> "pending", chat |-> chat])
            /\ S.isLoading
      /\ Cardinality(PendingRequests) <= 1
      /\ isLoading <=> PendingRequests # {}
      /\ \A r \in PendingRequests :
            /\ \A t \in Replies :
                  LET h == sendResolved(H, r, t)
                  IN  /\ h.messages = Append(messages, [role |-> "model", text |-> t])
                      /\ ~h.isLoading
                      /\ h.requests[r].st = "done"
            /\ \A nf \in BOOLEAN :
                  LET h == sendRejected(H, r, nf)
                  IN  /\ h.messages = Append(messages, Apology)
                      /\ ~h.isLoading
                      /\ h.requests[r].st = "done"
      /\ \A r \in 1..Len(requests) :
            /\ Cardinality({k \in 1..Len(messages) :
                  sentBy[k] = r /\ messages[k].role = "user"}) <= 1
            /\ Cardinality({k \in 1..Len(messages) :
                  sentBy[k] = r /\ messages[k].role = "model"}) <= 1

\* a submit was ignored, one request was answered by a reply and another
\* failed, and no request is in flight
C28_Witness ==
  /\ nSubmits > Len(requests)
  /\ Len(messages) = 5
  /\ messages[2].role = "user" /\ messages[3].role = "model"
  /\ messages[3] # Apology
  /\ messages[4].role = "user" /\ messages[5] = Apology
  /\ ~isLoading

\* a step in which a handleGenerate run returns after its try block
GenerateReturns ==
  gen'.phase = "finished" /\ (gen.phase # "finished" \/ nRuns' # nRuns)

\* C29: handleGenerate polls the operation until it reports done and never
\* after; when the run returns, isLoading is false and exactly one of the
\* video URL and the error message is set; and a run that ends with the
\* error of "Requested entity was not found" leaves isKeySelected false.
C29_GenerateOutcome ==
  /\ [] (gen.phase \in {"sleep", "poll"} => ~gen.doneSeen)
  /\ [][ GenerateReturns =>
           /\ ~videoIsLoading'
           /\ (generatedVideo' # Null) # (videoError' # NoError) ]_vars
  /\ [][ (GenerateReturns /\ videoError' = MsgVideoKey) =>
           ~isKeySelected' ]_vars

====
